---- MODULE Spec2Model ----
(***************************************************************************)
(* Model of compositor/xwayland.c: the Xwayland supervisor of the          *)
(* compositor.  wet_load_xwayland registers spawn_xserver with the         *)
(* xwayland module and arms a SIGUSR1 event source; spawn_xserver creates  *)
(* two socket pairs, forks and execs the X server; handle_sigusr1 reports  *)
(* xserver_loaded and removes the source wxw->sigusr1_source points to;    *)
(* xserver_cleanup reports xserver_exited, adds a new SIGUSR1 source and   *)
(* clears wxw->client.                                                     *)
(*                                                                         *)
(* The event loop and the kernel are the environment.  A signal source is  *)
(* a signalfd polled by the loop: every armed source is readable while     *)
(* SIGUSR1 is pending, the loop calls the callback of every source that    *)
(* was readable when it polled unless the source was removed in between,   *)
(* the first callback's read consumes the pending signal, and a removed    *)
(* source is freed when the dispatch round ends.                           *)
(***************************************************************************)
EXTENDS Integers, Sequences, FiniteSets, TLC

(* ---- bounds of the model ---- *)
MaxSpawns == 2      \* spawn_xserver calls explored
MaxRaise == 1       \* SIGUSR1 raised by one helper
MaxStray == 1       \* SIGUSR1 raised by other processes
FdLimit == 40       \* descriptor numbers are 0 .. FdLimit-1

(* ---- values of the program ---- *)
ARGS_COUNT == 13
EXIT_FAILURE == 1
XSERVER_PATH == "/usr/bin/Xwayland"

NULL == <<>>                 \* a null char* slot of argv
Ptr(s) == <<s>>              \* a non-null char* slot of argv
NoSource == 0                \* sigusr1_source after zalloc
NoClient == 0                \* client == NULL
Other == 0                   \* a sender of SIGUSR1 that is not a helper

(* descriptors the compositor holds before any spawn: stdio, the epoll   *)
(* descriptor, the X display sockets handed to spawn_xserver             *)
BaseFds == 0 .. 5
UnixFd == 4
AbstractFds == {0, 5}        \* 0: no abstract socket (if (abstract_fd))
Displays == {":0", ":1"}
FirstPid == 100

Fds == 0 .. (FdLimit - 1)

LowestFree(open) ==
    CHOOSE n \in Fds : n \notin open /\ \A m \in 0 .. (n - 1) : m \in open

Digit(d) ==
    CASE d = 0 -> "0" [] d = 1 -> "1" [] d = 2 -> "2" [] d = 3 -> "3"
      [] d = 4 -> "4" [] d = 5 -> "5" [] d = 6 -> "6" [] d = 7 -> "7"
      [] d = 8 -> "8" [] d = 9 -> "9"

RECURSIVE IntToStr(_)
(* snprintf(buf, 12, "%d", n) for a descriptor number n >= 0 *)
IntToStr(n) ==
    IF n < 10 THEN Digit(n) ELSE IntToStr(n \div 10) \o Digit(n % 10)

VARIABLES
    phase,            \* "unloaded", "loaded", "load_failed"
    loadRet,          \* value returned by wet_load_xwayland
    allocated,        \* live struct wet_xwayland allocations
    listening,        \* spawn_xserver registered through api->listen
    loadCalls,        \* the calls wet_load_xwayland made, in order
    armed,            \* SIGUSR1 sources on the event loop
    destroyed,        \* sources removed, not yet freed
    nextSrc,          \* next source identity
    sigusr1_source,   \* wxw->sigusr1_source
    client,           \* wxw->client
    wm_fd,            \* wxw->wm_fd
    pid,              \* wxw->process.pid
    watched,          \* wxw->process is on the process-watch list
    pending,          \* senders of the pending SIGUSR1 ({}: none pending)
    batch,            \* sources polled readable, callback not yet called
    crashed,          \* the compositor died of memory corruption
    open,             \* descriptors open in the compositor
    outcomes,         \* outcome of each spawn_xserver call so far
    raised,           \* SIGUSR1 raised per sender
    log,              \* calls made to the xwayland API
    last              \* the last spawn_xserver call

vars == <<phase, loadRet, allocated, listening, loadCalls, armed, destroyed, nextSrc,
          sigusr1_source, client, wm_fd, pid, watched, pending, batch,
          crashed, open, outcomes, raised, log, last>>

wxwVars == <<client, wm_fd, pid, watched>>
loopVars == <<armed, destroyed, nextSrc, sigusr1_source, pending, batch, crashed>>
loadVars == <<phase, loadRet, allocated, listening, loadCalls>>

cycle == Len(outcomes)       \* spawn_xserver calls so far

Stdio == 0 .. 2              \* the descriptors without FD_CLOEXEC

(* ---- the child branch of spawn_xserver ---- *)

(* BuildArgv with the test of disable_ac inverted *)
BuildArgvAcInverted(xserver, display, unix_fd_str, wm_fd_str, abstract_fd, abstract_fd_str, disable_ac) ==
    LET init == [i \in 0 .. (ARGS_COUNT - 1) |->
                    CASE i = 0 -> Ptr(xserver)
                      [] i = 1 -> Ptr(display)
                      [] i = 2 -> Ptr("-rootless")
                      [] i = 3 -> Ptr("-core")
                      [] i = 4 -> Ptr("-listen")
                      [] i = 5 -> Ptr(unix_fd_str)
                      [] i = 6 -> Ptr("-wm")
                      [] i = 7 -> Ptr(wm_fd_str)
                      [] i = 8 -> Ptr("-terminate")
                      [] OTHER -> NULL]
        listen == IF abstract_fd # 0
                  THEN [init EXCEPT ![9] = Ptr("-listen"),
                                    ![10] = Ptr(abstract_fd_str)]
                  ELSE [init EXCEPT ![9] = Ptr("-nolisten"),
                                    ![10] = Ptr("local")]
        ac == IF ~disable_ac THEN [listen EXCEPT ![11] = Ptr("-ac")] ELSE listen
        argc2 == IF ~disable_ac THEN 12 ELSE 11
    IN  [argv |-> ac, argc |-> argc2, assertion |-> argc2 <= ARGS_COUNT]

(* const char *argv[ARGS_COUNT] = { ... } and the statements filling it *)
BuildArgv(xserver, display, unix_fd_str, wm_fd_str, abstract_fd, abstract_fd_str, disable_ac) ==
    LET init == [i \in 0 .. (ARGS_COUNT - 1) |->
                    CASE i = 0 -> Ptr(xserver)
                      [] i = 1 -> Ptr(display)
                      [] i = 2 -> Ptr("-rootless")
                      [] i = 3 -> Ptr("-core")
                      [] i = 4 -> Ptr("-listen")
                      [] i = 5 -> Ptr(unix_fd_str)
                      [] i = 6 -> Ptr("-wm")
                      [] i = 7 -> Ptr(wm_fd_str)
                      [] i = 8 -> Ptr("-terminate")
                      [] OTHER -> NULL]
        argc0 == 9
        listen == IF abstract_fd # 0
                  THEN [init EXCEPT ![argc0] = Ptr("-listen"),
                                    ![argc0 + 1] = Ptr(abstract_fd_str)]
                  ELSE [init EXCEPT ![argc0] = Ptr("-nolisten"),
                                    ![argc0 + 1] = Ptr("local")]
        argc1 == argc0 + 2
        ac == IF disable_ac THEN [listen EXCEPT ![argc1] = Ptr("-ac")] ELSE listen
        argc2 == IF disable_ac THEN argc1 + 1 ELSE argc1
    IN  [argv |-> ac, argc |-> argc2, assertion |-> argc2 <= ARGS_COUNT]

Uninit == "<uninitialized>"  \* abstract_fd_str when abstract_fd is 0

ChildFails == {"none", "dup_sv", "dup_abstract", "dup_unix", "dup_wm", "exec"}

(* AbstractFdStr printing abstract_fd itself instead of its duplicate *)
AbstractFdStrOriginal(abstract_fd, fd) ==
    IF abstract_fd # 0 THEN IntToStr(abstract_fd) ELSE Uninit

(* abstract_fd_str as the child leaves it: the number of the duplicate fd *)
(* of abstract_fd when there is an abstract socket                        *)
AbstractFdStr(abstract_fd, fd) ==
    IF abstract_fd # 0 THEN IntToStr(fd) ELSE Uninit

NoDups == [sv |-> -1, abstract |-> -1, unix |-> -1, wm |-> -1]

NoChild ==
    [result |-> "none", status |-> 0, WAYLAND_SOCKET |-> NULL,
     built |-> [argv |-> [i \in 0 .. (ARGS_COUNT - 1) |-> NULL], argc |-> 0,
                assertion |-> TRUE],
     dups |-> NoDups, fds |-> {}, path |-> <<>>]

(* the calls of case 0 in program order; the dup of abstract_fd is made *)
(* only when there is an abstract socket                                *)
ChildCalls(abstract_fd) ==
    <<"dup_sv", "setenv">>
    \o (IF abstract_fd # 0 THEN <<"dup_abstract">> ELSE <<>>)
    \o <<"dup_unix", "dup_wm", "signal", "exec">>

(* the calls of the default branch and the return that follows the switch *)
ParentCalls == <<"close_sv1", "wl_client_create", "close_wm1", "weston_watch_process", "return">>

CallPosition(calls, c) == CHOOSE i \in 1 .. Len(calls) : calls[i] = c

(* ChildPath with the fail label falling out of case 0 into the default *)
(* branch                                                               *)
ChildPathNoExit(abstract_fd, childFail) ==
    LET calls == ChildCalls(abstract_fd)
    IN  IF \E i \in 1 .. Len(calls) : calls[i] = childFail
        THEN SubSeq(calls, 1, CallPosition(calls, childFail)) \o ParentCalls
        ELSE calls

(* the calls the child makes, in order: a failing dup jumps to the fail *)
(* label, a failing execv logs and reaches it, and the fail label calls *)
(* _exit; a successful execv is the last call of the child              *)
ChildPath(abstract_fd, childFail) ==
    LET calls == ChildCalls(abstract_fd)
    IN  IF \E i \in 1 .. Len(calls) : calls[i] = childFail
        THEN SubSeq(calls, 1, CallPosition(calls, childFail))
             \o (IF childFail = "exec" THEN <<"weston_log">> ELSE <<>>)
             \o <<"_exit">>
        ELSE calls

(* ExecFds with the channel ends created without SOCK_CLOEXEC *)
ExecFdsNoCloexec(openAtExec, dups) == openAtExec

(* the descriptors left open by a successful execv: the channel ends are *)
(* created SOCK_CLOEXEC and the compositor's other descriptors are       *)
(* close-on-exec too, so only the standard streams and the duplicates    *)
(* made by dup stay open                                                 *)
ExecFds(openAtExec, dups) == (openAtExec \cap Stdio) \cup (dups \ {-1})

(* case 0 of the switch: the forked child, which starts with a copy of     *)
(* the parent's descriptors; childFail names the call that fails.  fds is  *)
(* what the X server holds once exec has closed every FD_CLOEXEC           *)
(* descriptor.                                                             *)
Child(openAtFork, sv, wm, display, abstract_fd, unix_fd, xserver, disable_ac, childFail) ==
    LET d1 == LowestFree(openAtFork)
        o1 == openAtFork \cup {d1}
        d2 == IF abstract_fd # 0 THEN LowestFree(o1) ELSE -1
        o2 == IF abstract_fd # 0 THEN o1 \cup {d2} ELSE o1
        abstract_fd_str == AbstractFdStr(abstract_fd, d2)
        d3 == LowestFree(o2)
        o3 == o2 \cup {d3}
        d4 == LowestFree(o3)
        o4 == o3 \cup {d4}
        built == BuildArgv(xserver, display, IntToStr(d3), IntToStr(d4),
                           abstract_fd, abstract_fd_str, disable_ac)
        failed == [NoChild EXCEPT !.result = "exit", !.status = EXIT_FAILURE,
                                  !.path = ChildPath(abstract_fd, childFail)]
        s == Ptr(IntToStr(d1))
    IN  IF childFail = "dup_sv" THEN failed
        ELSE IF abstract_fd # 0 /\ childFail = "dup_abstract"
        THEN [failed EXCEPT !.WAYLAND_SOCKET = s,
                            !.dups = [NoDups EXCEPT !.sv = d1]]
        ELSE IF childFail = "dup_unix"
        THEN [failed EXCEPT !.WAYLAND_SOCKET = s,
                            !.dups = [NoDups EXCEPT !.sv = d1, !.abstract = d2]]
        ELSE IF childFail = "dup_wm"
        THEN [failed EXCEPT !.WAYLAND_SOCKET = s,
                            !.dups = [sv |-> d1, abstract |-> d2,
                                      unix |-> d3, wm |-> -1]]
        ELSE LET all == [sv |-> d1, abstract |-> d2, unix |-> d3, wm |-> d4]
             IN  IF childFail = "exec"
                 THEN [failed EXCEPT !.WAYLAND_SOCKET = s, !.built = built,
                                     !.dups = all]
                 ELSE [NoChild EXCEPT !.result = "exec",
                                      !.WAYLAND_SOCKET = s,
                                      !.built = built,
                                      !.dups = all,
                                      !.path = ChildPath(abstract_fd, childFail),
                                      !.fds = ExecFds(o4, {d1, d2, d3, d4})]

(* ---- spawn_xserver ---- *)

SpawnFails == {"none", "socketpair_sv", "socketpair_wm", "fork"}

NoSpawn ==
    [outcome |-> "none", ret |-> 0, display |-> "", abstract_fd |-> 0,
     unix_fd |-> 0, disable_ac |-> FALSE, sv |-> <<>>, wm |-> <<>>,
     pairs |-> 0, started |-> 0, client_fd |-> -1,
     before |-> [open |-> {},
                 wxw |-> [client |-> NoClient, wm_fd |-> 0, pid |-> 0,
                          watched |-> FALSE]],
     child |-> NoChild]

Init ==
    /\ phase = "unloaded"
    /\ loadRet = 0
    /\ allocated = 0
    /\ listening = FALSE
    /\ loadCalls = <<>>
    /\ armed = {}
    /\ destroyed = {}
    /\ nextSrc = 1
    /\ sigusr1_source = NoSource
    /\ client = NoClient
    /\ wm_fd = 0
    /\ pid = 0
    /\ watched = FALSE
    /\ pending = {}
    /\ batch = {}
    /\ crashed = FALSE
    /\ open = BaseFds
    /\ outcomes = <<>>
    /\ raised = [c \in 0 .. MaxSpawns |-> 0]
    /\ log = <<>>
    /\ last = NoSpawn

(* ---- wet_load_xwayland ---- *)

LoadSteps == {"module", "api", "get", "zalloc", "listen", "none"}

(* the calls of wet_load_xwayland in program order *)
LoadOrder == <<"module", "api", "get", "zalloc", "listen", "add_signal">>

Position(step) == CHOOSE i \in 1 .. Len(LoadOrder) : LoadOrder[i] = step

(* LoadResult with the value api->listen returns not tested *)
LoadResultListenUnchecked(failAt) ==
    IF failAt \in {"none", "listen"}
    THEN [ret |-> 0, calls |-> LoadOrder, allocs |-> 1,
          listens |-> failAt = "none", arms |-> TRUE]
    ELSE [ret |-> -1, calls |-> SubSeq(LoadOrder, 1, Position(failAt)),
          allocs |-> 0, listens |-> FALSE, arms |-> FALSE]

(* what a run of wet_load_xwayland does when the call failAt fails: each *)
(* failure returns -1 at once; the wxw allocated by zalloc is not freed  *)
(* when api->listen fails                                                *)
LoadResult(failAt) ==
    IF failAt = "none"
    THEN [ret |-> 0, calls |-> LoadOrder, allocs |-> 1, listens |-> TRUE,
          arms |-> TRUE]
    ELSE [ret |-> -1, calls |-> SubSeq(LoadOrder, 1, Position(failAt)),
          allocs |-> IF failAt = "listen" THEN 1 ELSE 0,
          listens |-> FALSE, arms |-> FALSE]

(* failAt is the step that fails, "none" if none does *)
wet_load_xwayland(failAt) ==
    /\ phase = "unloaded"
    /\ LET r == LoadResult(failAt)
       IN  /\ phase' = IF r.ret = 0 THEN "loaded" ELSE "load_failed"
           /\ loadRet' = r.ret
           /\ loadCalls' = r.calls
           /\ allocated' = allocated + r.allocs
           /\ listening' = r.listens
           /\ armed' = IF r.arms THEN armed \cup {nextSrc} ELSE armed
           /\ sigusr1_source' = IF r.arms THEN nextSrc ELSE sigusr1_source
           /\ nextSrc' = IF r.arms THEN nextSrc + 1 ELSE nextSrc
    /\ UNCHANGED <<destroyed, client, wm_fd, pid, watched, pending, batch,
                   crashed, open, outcomes, raised, log, last>>

(* ---- the parent side of spawn_xserver ---- *)

(* socketpair(AF_UNIX, SOCK_STREAM | SOCK_CLOEXEC, 0, v): the two lowest *)
(* free descriptors                                                      *)
Socketpair(o) ==
    LET a == LowestFree(o) IN <<a, LowestFree(o \cup {a})>>

(* the socket pairs made and the processes started by a call *)
PairsMade(fail) ==
    CASE fail = "socketpair_sv" -> 0 [] fail = "socketpair_wm" -> 1 [] OTHER -> 2

Started(fail) == IF fail = "none" THEN 1 ELSE 0

(* ParentOpen without close(wm[1]) *)
ParentOpenKeepsWm1(fail, o, sv, wm) ==
    CASE fail = "socketpair_sv" -> o
      [] fail = "socketpair_wm" -> o \cup {sv[1], sv[2]}
      [] fail = "fork" -> o \cup {sv[1], sv[2], wm[1], wm[2]}
      [] OTHER -> (o \cup {sv[1], sv[2], wm[1], wm[2]}) \ {sv[2]}

(* the descriptors open in the parent when spawn_xserver returns *)
ParentOpen(fail, o, sv, wm) ==
    CASE fail = "socketpair_sv" -> o
      [] fail = "socketpair_wm" -> o \cup {sv[1], sv[2]}
      [] fail = "fork" -> o \cup {sv[1], sv[2], wm[1], wm[2]}
      [] OTHER -> ((o \cup {sv[1], sv[2], wm[1], wm[2]}) \ {sv[2]}) \ {wm[2]}

(* ParentState without the return after the second socketpair fails *)
ParentStateFallsThrough(fail, pre, newclient, wm, newpid) ==
    IF fail \in {"none", "socketpair_wm"}
    THEN [client |-> newclient, wm_fd |-> wm[1], pid |-> newpid,
          watched |-> TRUE]
    ELSE pre

(* ParentState with weston_watch_process called after the switch, for *)
(* a failed fork too                                                  *)
ParentStateWatchesFailedFork(fail, pre, newclient, wm, newpid) ==
    IF fail = "none"
    THEN [client |-> newclient, wm_fd |-> wm[1], pid |-> newpid,
          watched |-> TRUE]
    ELSE IF fail = "fork" THEN [pre EXCEPT !.watched = TRUE] ELSE pre

(* client, wm_fd, process.pid and the watch list when spawn_xserver     *)
(* returns: the default branch of the switch sets them                  *)
ParentState(fail, pre, newclient, wm, newpid) ==
    IF fail = "none"
    THEN [client |-> newclient, wm_fd |-> wm[1], pid |-> newpid,
          watched |-> TRUE]
    ELSE pre

(* the value spawn_xserver returns *)
ReturnValue(fail, newpid) ==
    CASE fail = "socketpair_sv" -> 1
      [] fail = "socketpair_wm" -> 1
      [] fail = "fork" -> -1
      [] OTHER -> newpid

(* fail names the call of the parent that fails, childFail the call of   *)
(* the child that fails.  The xwayland module calls spawn_xserver when   *)
(* no X server is running.  sv and wm are 1-indexed here: sv[1] is the   *)
(* code's sv[0].                                                         *)
spawn_xserver(display, abstract_fd, unix_fd, xserver, disable_ac, fail, childFail) ==
    /\ phase = "loaded" /\ listening /\ ~crashed
    /\ ~watched
    /\ cycle < MaxSpawns
    /\ childFail = "dup_abstract" => abstract_fd # 0
    /\ fail # "none" => childFail = "none"
    /\ LET sv == Socketpair(open)
           wm == Socketpair(open \cup {sv[1], sv[2]})
           newpid == FirstPid + cycle
           pre == [client |-> client, wm_fd |-> wm_fd, pid |-> pid,
                   watched |-> watched]
           post == ParentState(fail, pre, cycle + 1, wm, newpid)
           child == IF fail = "none"
                    THEN Child(open \cup {sv[1], sv[2], wm[1], wm[2]}, sv, wm,
                               display, abstract_fd, unix_fd, xserver,
                               disable_ac, childFail)
                    ELSE NoChild
       IN  /\ open' = ParentOpen(fail, open, sv, wm)
           /\ client' = post.client
           /\ wm_fd' = post.wm_fd
           /\ pid' = post.pid
           /\ watched' = post.watched
           /\ outcomes' = Append(outcomes,
                                 IF fail = "none" THEN child.result ELSE fail)
           /\ last' = [outcome |-> IF fail = "none" THEN "ok" ELSE fail,
                       ret |-> ReturnValue(fail, newpid),
                       display |-> display, abstract_fd |-> abstract_fd,
                       unix_fd |-> unix_fd, disable_ac |-> disable_ac,
                       sv |-> IF PairsMade(fail) >= 1 THEN sv ELSE <<>>,
                       wm |-> IF PairsMade(fail) >= 2 THEN wm ELSE <<>>,
                       pairs |-> PairsMade(fail),
                       started |-> Started(fail),
                       client_fd |-> IF fail = "none" THEN sv[1] ELSE -1,
                       before |-> [open |-> open, wxw |-> pre],
                       child |-> child]
    /\ UNCHANGED <<loadVars, loopVars, raised, log>>

(* ---- the readiness signal ---- *)

Entry(kind, c, w, status, cyc, from) ==
    [kind |-> kind, client |-> c, wm_fd |-> w, status |-> status,
     cyc |-> cyc, from |-> from]

(* the helper of the running cycle, once it is the X server *)
HelperSignals ==
    IF watched /\ outcomes[cycle] = "exec" THEN {cycle} ELSE {}

(* kill(compositor, SIGUSR1): the X server does it when it is done with    *)
(* initialization, and any other process may.  SIGUSR1 is a standard       *)
(* signal: raised while pending, it is merged with the pending one.        *)
RaiseSigusr1(sender) ==
    /\ phase = "loaded" /\ ~crashed
    /\ sender \in HelperSignals \cup {Other}
    /\ raised[sender] < (IF sender = Other THEN MaxStray ELSE MaxRaise)
    /\ raised' = [raised EXCEPT ![sender] = @ + 1]
    /\ pending' = pending \cup {sender}
    /\ UNCHANGED <<loadVars, wxwVars, armed, destroyed, nextSrc,
                   sigusr1_source, batch, crashed, open, outcomes, log, last>>

(* The event loop calls handle_sigusr1 for source s: s was polled readable *)
(* in the running dispatch round (batch), or a new round starts with every *)
(* armed source readable.  The handler reports xserver_loaded and removes  *)
(* the source wxw->sigusr1_source points to, which need not be s.          *)
(* Removing a source that was already freed is undefined behaviour: it     *)
(* goes unnoticed or it kills the compositor (dies).                       *)
handle_sigusr1(s, dies) ==
    /\ phase = "loaded" /\ ~crashed
    /\ s \in armed
    /\ s \in batch \/ (batch = {} /\ pending # {})
    /\ LET round == IF s \in batch THEN batch ELSE armed
           ptr == sigusr1_source
           live == ptr \in armed \/ ptr \in destroyed
           armedAfter == IF live THEN armed \ {ptr} ELSE armed
           rest == (round \ {s}) \cap armedAfter
       IN  /\ log' = Append(log, Entry("loaded", client, wm_fd, 0,
                                       IF watched THEN cycle ELSE 0, pending))
           /\ pending' = {}
           /\ armed' = armedAfter
           /\ destroyed' = IF rest = {} THEN {}
                           ELSE destroyed \cup (armed \cap {ptr})
           /\ batch' = rest
           /\ crashed' = (~live /\ dies)
           /\ live => ~dies
    /\ UNCHANGED <<loadVars, wxwVars, nextSrc, sigusr1_source, open, outcomes,
                   raised, last>>

(* ---- the exit of the helper ---- *)

(* CleanupState with process.pid reset as well *)
CleanupStateClearsPid(pre) ==
    [pre EXCEPT !.client = NoClient, !.pid = 0, !.watched = FALSE]

(* CleanupState without the assignment wxw->client = NULL *)
CleanupStateKeepsClient(pre) == [pre EXCEPT !.watched = FALSE]

(* the fields of wxw after xserver_cleanup: client is set to NULL, wm_fd *)
(* and process.pid are not assigned; the process is no longer watched    *)
CleanupState(pre) == [pre EXCEPT !.client = NoClient, !.watched = FALSE]

(* The process-watch facility calls process.cleanup with the exit status  *)
(* when the watched child has exited, and drops the process from its list. *)
xserver_cleanup(status) ==
    /\ phase = "loaded" /\ ~crashed
    /\ watched
    /\ outcomes[cycle] = "exit" => status = EXIT_FAILURE
    /\ log' = Append(log, Entry("exited", NoClient, 0, status, cycle, {}))
    /\ armed' = armed \cup {nextSrc}
    /\ sigusr1_source' = nextSrc
    /\ nextSrc' = nextSrc + 1
    /\ LET post == CleanupState([client |-> client, wm_fd |-> wm_fd,
                                 pid |-> pid, watched |-> watched])
       IN  /\ client' = post.client
           /\ wm_fd' = post.wm_fd
           /\ pid' = post.pid
           /\ watched' = post.watched
    /\ UNCHANGED <<loadVars, destroyed, pending, batch, crashed, open,
                   outcomes, raised, last>>

(* ---- the specifications ---- *)

LoadStep == \E failAt \in LoadSteps : wet_load_xwayland(failAt)

(* the lifecycle is explored with one display, with fork as the call   *)
(* of the parent that may fail and dup(sv[1]) as the call of the child *)
(* that may fail; SpecLaunch explores every input of spawn_xserver     *)
SpawnStep ==
    \E fail \in {"none", "fork"}, childFail \in {"none", "dup_sv"} :
        spawn_xserver(":0", 0, UnixFd, XSERVER_PATH, FALSE, fail, childFail)

SpawnAnyStep ==
    \E display \in Displays, abstract_fd \in AbstractFds,
       disable_ac \in BOOLEAN, fail \in SpawnFails, childFail \in ChildFails :
        spawn_xserver(display, abstract_fd, UnixFd, XSERVER_PATH, disable_ac,
                      fail, childFail)

RaiseStep == \E sender \in 0 .. MaxSpawns : RaiseSigusr1(sender)

SignalStep == \E s \in armed, dies \in BOOLEAN : handle_sigusr1(s, dies)

(* in the lifecycle an X server that was started exits with status 0 *)
CleanupStep ==
    xserver_cleanup(IF outcomes[cycle] = "exit" THEN EXIT_FAILURE ELSE 0)

CleanupAnyStep ==
    \E status \in {0, EXIT_FAILURE} : xserver_cleanup(status)

Next == LoadStep \/ SpawnStep \/ RaiseStep \/ SignalStep \/ CleanupStep

Spec == Init /\ [][Next]_vars

NextLaunch == LoadStep \/ SpawnAnyStep \/ CleanupAnyStep

SpecLaunch == Init /\ [][NextLaunch]_vars

(* ---- what the claims speak about ---- *)

Idx == 1 .. Len(log)
LoadedIdx == {i \in Idx : log[i].kind = "loaded"}
ExitedIdx == {i \in Idx : log[i].kind = "exited"}

(* no SIGUSR1 is pending and no callback of a dispatch round is left *)
Quiet == pending = {} /\ batch = {}

SpawnFailed == last.outcome \in {"socketpair_sv", "socketpair_wm", "fork"}

(* the last call forked a child that got as far as filling argv *)
Built == last.outcome = "ok" /\ last.child.built.argc > 0

(* the arguments exec reads: the slots before the first null one *)
ArgEnd(a) ==
    CHOOSE n \in 0 .. ARGS_COUNT :
        /\ n = ARGS_COUNT \/ a[n] = NULL
        /\ \A m \in 0 .. (n - 1) : a[m] # NULL

Args(a) == [i \in 1 .. ArgEnd(a) |-> a[i - 1][1]]

LastArgs == Args(last.child.built.argv)

FixedArgs ==
    <<XSERVER_PATH, last.display, "-rootless", "-core", "-listen",
      IntToStr(last.child.dups.unix), "-wm", IntToStr(last.child.dups.wm),
      "-terminate">>

LastN(s, n) == SubSeq(s, Len(s) - n + 1, Len(s))

(* C1: at most one SIGUSR1 source is armed on the event loop at any time, *)
(* also when a helper exits without having signalled readiness.          *)
C1_AtMostOneArmed == Cardinality(armed) <= 1

(* every spawn so far started an X server, each X server raised SIGUSR1  *)
(* once before it exited, and nobody else raised SIGUSR1                 *)
EveryHelperReadyOnce ==
    /\ raised[Other] = 0
    /\ \A c \in 1 .. cycle :
          /\ outcomes[c] = "exec"
          /\ raised[c] <= 1
          /\ (c < cycle \/ ~watched) => raised[c] = 1

(* C2: over N spawn/exit cycles in which every helper raises SIGUSR1     *)
(* once before exiting, N xserver_loaded and N xserver_exited are        *)
(* delivered, loaded before exited in each cycle, and exactly one        *)
(* SIGUSR1 source is armed between the exit of a cycle and the next      *)
(* spawn.                                                                *)
C2_ReadyCycles ==
    EveryHelperReadyOnce =>
        /\ (~watched /\ cycle >= 1) => Cardinality(armed) = 1
        /\ (~watched /\ Quiet) =>
              /\ Len(log) = 2 * cycle
              /\ \A c \in 1 .. cycle :
                    /\ log[2 * c - 1].kind = "loaded"
                    /\ log[2 * c].kind = "exited"

(* the helper before the running one exited without any SIGUSR1 raised,  *)
(* and the running X server raised SIGUSR1 once, which was dispatched    *)
ReadyAfterSilentExit ==
    /\ cycle >= 2 /\ watched
    /\ raised[Other] = 0
    /\ \A c \in 1 .. (cycle - 1) : raised[c] = 0
    /\ outcomes[cycle - 1] \in {"exec", "exit"}
    /\ outcomes[cycle] = "exec"
    /\ raised[cycle] = 1
    /\ Quiet

(* C3: a helper that exits before any SIGUSR1 yields one xserver_exited  *)
(* and no xserver_loaded, and the single SIGUSR1 of the next helper      *)
(* yields exactly one xserver_loaded, with the client and the WM         *)
(* descriptor of that next spawn.                                        *)
C3_ReadyAfterSilentExit ==
    ReadyAfterSilentExit =>
        /\ Cardinality({i \in ExitedIdx : log[i].cyc = cycle - 1}) = 1
        /\ {i \in LoadedIdx : log[i].cyc = cycle - 1} = {}
        /\ Cardinality({i \in LoadedIdx : log[i].cyc = cycle}) = 1
        /\ \A i \in LoadedIdx :
              log[i].cyc = cycle =>
                  log[i].client = cycle /\ log[i].wm_fd = last.wm[1]

(* C4: no xserver_loaded caused by a helper's SIGUSR1 is delivered after *)
(* the xserver_exited of that helper.                                    *)
C4_LoadedNeverAfterExited ==
    \A i \in ExitedIdx, j \in LoadedIdx :
        log[i].cyc \in log[j].from => j < i

(* C5: a successful spawn_xserver made two socket pairs and started one  *)
(* process, and the parent has sv[0] (the client's descriptor) and wm[0] *)
(* (wm_fd) open, sv[1] and wm[1] closed.                                 *)
C5_SuccessfulSpawn ==
    last.outcome = "ok" =>
        /\ last.pairs = 2 /\ last.started = 1
        /\ Cardinality({last.sv[1], last.sv[2], last.wm[1], last.wm[2]}
                       \ last.before.open) = 4
        /\ open = last.before.open \cup {last.sv[1], last.wm[1]}
        /\ last.sv[2] \notin open /\ last.wm[2] \notin open
        /\ last.client_fd = last.sv[1]
        /\ wm_fd = last.wm[1]
        /\ watched => client # NoClient

C5_Witness ==
    last.outcome = "ok" /\ cycle = 2 /\ watched /\ last.sv[1] # 6

(* C6: when a socketpair call fails, no process is started, nothing is   *)
(* watched, and process.pid, client and wm_fd keep their values.         *)
C6_ChannelFailureNoEffect ==
    last.outcome \in {"socketpair_sv", "socketpair_wm"} =>
        /\ last.started = 0
        /\ last.child = NoChild
        /\ ~watched
        /\ [client |-> client, wm_fd |-> wm_fd, pid |-> pid,
            watched |-> watched] = last.before.wxw

C6_Witness ==
    last.outcome = "socketpair_wm" /\ pid = FirstPid /\ wm_fd # 0

(* C7: when fork fails, sv[0], sv[1], wm[0] and wm[1] are all closed in  *)
(* the parent on return.                                                 *)
C7_ForkFailureClosesAll ==
    last.outcome = "fork" =>
        {last.sv[1], last.sv[2], last.wm[1], last.wm[2]} \cap open = {}

(* C8: a failed spawn_xserver returns a value that is no process id      *)
(* (process ids are positive), and spawn_xserver returns a process id    *)
(* only when a helper was started.                                       *)
C8_FailureSentinel ==
    /\ SpawnFailed => last.ret < 1
    /\ last.ret >= 1 => last.started = 1

(* C9: argv is the 9 fixed entries, then "-listen" and abstract_fd_str   *)
(* if there is an abstract descriptor and "-nolisten" "local" if not,    *)
(* then "-ac" iff access control is disabled, then a null terminator,    *)
(* within the 13 slots; assert(argc <= ARGS_COUNT) holds.                *)
C9_ArgvComposition ==
    Built =>
        LET b == last.child.built
            expected ==
                FixedArgs
                \o (IF last.abstract_fd # 0
                    THEN <<"-listen", IntToStr(last.child.dups.abstract)>>
                    ELSE <<"-nolisten", "local">>)
                \o (IF last.disable_ac THEN <<"-ac">> ELSE <<>>)
        IN  /\ LastArgs = expected
            /\ b.argc = Len(expected)
            /\ Len(expected) + 1 <= ARGS_COUNT
            /\ b.argv[Len(expected)] = NULL
            /\ b.assertion

C9_Witness ==
    Built /\ last.disable_ac /\ last.abstract_fd # 0
          /\ last.child.built.argc = ARGS_COUNT - 1

(* C10 as stated: with abstract descriptor n and access control enabled, *)
(* argv ends with "-listen" and the decimal string of n, without "-ac".  *)
C10_ListenOriginalNumber ==
    (Built /\ last.abstract_fd # 0 /\ ~last.disable_ac) =>
        /\ LastN(LastArgs, 2) = <<"-listen", IntToStr(last.abstract_fd)>>
        /\ \A i \in 1 .. Len(LastArgs) : LastArgs[i] # "-ac"

(* C10 as amended: argv ends with "-listen" and the decimal string of    *)
(* the descriptor dup(n) returned in the child, which is not n, without  *)
(* "-ac".                                                                *)
C10_ListenDuplicate ==
    (Built /\ last.abstract_fd # 0 /\ ~last.disable_ac) =>
        /\ LastN(LastArgs, 2) = <<"-listen", IntToStr(last.child.dups.abstract)>>
        /\ last.child.dups.abstract # last.abstract_fd
        /\ last.child.dups.abstract \notin last.before.open
        /\ \A i \in 1 .. Len(LastArgs) : LastArgs[i] # "-ac"

C10_Witness ==
    Built /\ last.abstract_fd = 5 /\ ~last.disable_ac
          /\ LastN(LastArgs, 2) = <<"-listen", "11">>

(* the helper started by the last call of spawn_xserver has exited and *)
(* xserver_cleanup has run for it; nothing was spawned since           *)
AfterCleanup == last.outcome = "ok" /\ ~watched

(* C11 as stated: after xserver_cleanup the client is null, the recorded *)
(* process id is none, and wm_fd no longer holds the descriptor stored   *)
(* by the spawn that ended.                                              *)
C11_CleanupClearsAll ==
    AfterCleanup => client = NoClient /\ pid = 0 /\ wm_fd # last.wm[1]

(* C11 as amended: after xserver_cleanup the client is null, while the   *)
(* recorded process id and wm_fd still hold the values stored by the     *)
(* spawn that ended.                                                     *)
C11_CleanupClearsClient ==
    AfterCleanup => client = NoClient /\ pid = last.ret /\ wm_fd = last.wm[1]

C11_Witness ==
    AfterCleanup /\ cycle = 2 /\ pid = FirstPid + 1 /\ client = NoClient
                 /\ \E i \in ExitedIdx : log[i].cyc = 2

(* a step that sets a non-null client to NULL is a run of xserver_cleanup *)
ClientClearedByCleanup ==
    (client # NoClient /\ client' = NoClient) =>
        /\ Len(log') = Len(log) + 1
        /\ log'[Len(log')].kind = "exited"
        /\ log'[Len(log')].cyc = client

(* C12: the client is non-null only while the helper of a successful     *)
(* spawn is watched and its xserver_cleanup has not run, and only a run  *)
(* of xserver_cleanup turns a non-null client into NULL (handle_sigusr1  *)
(* never does).                                                          *)
C12_ClientOnlyWhileHelperRuns ==
    /\ [](client # NoClient =>
            /\ watched /\ last.outcome = "ok" /\ client = cycle
            /\ outcomes[cycle] \in {"exec", "exit"}
            /\ \A i \in ExitedIdx : log[i].cyc # cycle)
    /\ [][ClientClearedByCleanup]_vars

C12_Witness ==
    /\ client # NoClient /\ cycle = 2
    /\ \E i \in LoadedIdx : log[i].cyc = 2 /\ log[i].client = client
    /\ \E i \in ExitedIdx : log[i].cyc = 1

(* C13: a failing step of wet_load_xwayland returns -1 with only the     *)
(* calls up to that step made and no SIGUSR1 source added; 0 is returned *)
(* only when api->listen succeeded with spawn_xserver registered, and    *)
(* then exactly one SIGUSR1 source is armed.                             *)
C13_LoadAllOrNothing ==
    /\ phase = "unloaded" => loadCalls = <<>> /\ armed = {} /\ ~listening
    /\ phase = "load_failed" =>
        /\ loadRet = -1
        /\ Len(loadCalls) \in 1 .. (Len(LoadOrder) - 1)
        /\ loadCalls = SubSeq(LoadOrder, 1, Len(loadCalls))
        /\ ~listening
        /\ armed = {} /\ sigusr1_source = NoSource /\ nextSrc = 1
    /\ phase = "loaded" =>
        /\ loadRet = 0
        /\ loadCalls = LoadOrder
        /\ listening
        /\ (cycle = 0 /\ log = <<>>) =>
               Cardinality(armed) = 1 /\ armed = {sigusr1_source}

C13_Witness ==
    /\ phase = "load_failed" /\ loadRet = -1
    /\ loadCalls = <<"module", "api", "get", "zalloc", "listen">>
    /\ armed = {}

(* C14: when api->listen fails after the allocation, the allocated wxw  *)
(* is released before wet_load_xwayland returns: nothing stays          *)
(* allocated after a failed load.                                       *)
C14_ListenFailureReleases == phase = "load_failed" => allocated = 0

(* C15: in the forked child every path ends in a successful execv or in *)
(* _exit(EXIT_FAILURE) right after the first failing dup or the failing *)
(* execv; the child makes none of the calls of the parent branch and    *)
(* does not return from spawn_xserver.                                  *)
C15_ChildExecsOrExits ==
    last.outcome = "ok" =>
        LET c == last.child
            p == c.path
            n == Len(p)
        IN  /\ n > 0
            /\ c.result \in {"exec", "exit"}
            /\ c.result = "exec" =>
                   p[n] = "exec" /\ c.dups.sv \in c.fds /\ c.dups.wm \in c.fds
            /\ c.result = "exit" =>
                   /\ p[n] = "_exit" /\ c.status = EXIT_FAILURE /\ c.fds = {}
                   /\ \/ p[n - 1] \in {"dup_sv", "dup_abstract", "dup_unix", "dup_wm"}
                      \/ n > 2 /\ p[n - 1] = "weston_log" /\ p[n - 2] = "exec"
            /\ \A i \in 1 .. n, j \in 1 .. Len(ParentCalls) : p[i] # ParentCalls[j]
            /\ \A i \in 1 .. (n - 1) : p[i] # "_exit"

C15_Witness ==
    /\ last.outcome = "ok" /\ last.child.result = "exit"
    /\ last.child.status = EXIT_FAILURE
    /\ last.child.path = <<"dup_sv", "setenv", "dup_abstract", "dup_unix", "dup_wm", "signal", "exec", "weston_log", "_exit">>

(* a step in which xserver_cleanup runs: xserver_exited is logged *)
IsCleanup == Len(log') = Len(log) + 1 /\ log'[Len(log')].kind = "exited"

(* C16: the process is watched only once a successful fork has returned  *)
(* and client, wm_fd and process.pid are recorded, so xserver_cleanup    *)
(* and xserver_exited run only with the pid recorded, once per started   *)
(* helper, and never for a spawn attempt that failed.                    *)
C16_WatchedOnlyAfterRecorded ==
    /\ [](/\ watched =>
              /\ last.outcome = "ok" /\ outcomes[cycle] \in {"exec", "exit"}
              /\ pid = last.ret /\ pid >= FirstPid
              /\ client # NoClient /\ wm_fd = last.wm[1]
          /\ SpawnFailed => ~watched
          /\ \A i \in ExitedIdx :
              /\ log[i].cyc \in 1 .. cycle
              /\ outcomes[log[i].cyc] \in {"exec", "exit"}
              /\ \A j \in ExitedIdx : log[j].cyc = log[i].cyc => j = i)
    /\ [][IsCleanup =>
            /\ watched /\ last.outcome = "ok"
            /\ pid = last.ret /\ pid >= FirstPid
            /\ log'[Len(log')].cyc = cycle]_vars

C16_Witness ==
    /\ SpawnFailed /\ ~watched /\ cycle = 2
    /\ outcomes[1] \in {"exec", "exit"}
    /\ ExitedIdx # {} /\ \A i \in ExitedIdx : log[i].cyc = 1

(* the xserver_loaded calls made while the helper of spawn cycle c ran *)
LoadedIn(c) == {i \in LoadedIdx : log[i].cyc = c}

(* C17: once handle_sigusr1 has run for a helper no SIGUSR1 source is    *)
(* armed until xserver_cleanup runs, so at most one xserver_loaded is    *)
(* delivered per spawn cycle however many SIGUSR1 arrive, also in a      *)
(* cycle that follows a helper which exited without signalling.          *)
C17_SingleUsePerHelper ==
    /\ (watched /\ LoadedIn(cycle) # {}) => armed = {}
    /\ \A c \in 1 .. cycle : Cardinality(LoadedIn(c)) <= 1

(* C18: every xserver_loaded is delivered while a helper is running,    *)
(* with the non-null client and the wm_fd of the most recent successful *)
(* spawn, never with a null client or a stale wm_fd.                    *)
C18_LoadedWhileHelperRuns ==
    \A i \in LoadedIdx :
        /\ log[i].cyc >= 1
        /\ log[i].client = log[i].cyc
        /\ log[i].client # NoClient
        /\ log[i].wm_fd # 0

(* the helper of the last call of spawn_xserver was started by execv *)
ExecDone == last.outcome = "ok" /\ last.child.result = "exec"

(* the four channel ends, by their descriptor numbers at fork *)
Ends == {last.sv[1], last.sv[2], last.wm[1], last.wm[2]}

(* the channel end a descriptor of the helper refers to: a duplicate *)
(* refers to the end it was duplicated from                          *)
EndOf(fd) ==
    IF fd = last.child.dups.sv THEN last.sv[2]
    ELSE IF fd = last.child.dups.wm THEN last.wm[2]
    ELSE fd

HelperEnds == {EndOf(fd) : fd \in last.child.fds} \cap Ends

ParentEnds == open \cap Ends

(* C19: after a successful execv, of the four channel ends and their    *)
(* duplicates the helper holds exactly the duplicate of sv[1], whose    *)
(* number is in WAYLAND_SOCKET, and the duplicate of wm[1], whose       *)
(* number follows "-wm"; the four original descriptors are closed in    *)
(* the helper, and no channel end is held by both parent and helper.    *)
C19_HelperHoldsOnlyDuplicates ==
    ExecDone =>
        LET c == last.child
        IN  /\ c.dups.sv # c.dups.wm /\ {c.dups.sv, c.dups.wm} \cap Ends = {}
            /\ c.fds \cap (Ends \cup {c.dups.sv, c.dups.wm})
                   = {c.dups.sv, c.dups.wm}
            /\ c.WAYLAND_SOCKET = Ptr(IntToStr(c.dups.sv))
            /\ \E i \in 1 .. (Len(LastArgs) - 1) :
                   LastArgs[i] = "-wm" /\ LastArgs[i + 1] = IntToStr(c.dups.wm)
            /\ \A i \in 1 .. (Len(LastArgs) - 1) :
                   LastArgs[i] = "-wm" => LastArgs[i + 1] = IntToStr(c.dups.wm)
            /\ HelperEnds = {last.sv[2], last.wm[2]}
            /\ ParentEnds = {last.sv[1], last.wm[1]}
            /\ ParentEnds \cap HelperEnds = {}

C19_Witness ==
    /\ ExecDone /\ cycle = 2 /\ last.abstract_fd # 0
    /\ last.child.dups.sv \in last.child.fds
    /\ last.child.dups.wm \in last.child.fds
    /\ ParentEnds = {last.sv[1], last.wm[1]}

(* C20: a spawn that fails at channel creation leaves the parent's open *)
(* descriptors exactly as they were before the call: when the second    *)
(* socketpair fails, both ends of the display channel are closed before *)
(* spawn_xserver returns.                                               *)
C20_ChannelFailureClosesAll ==
    last.outcome \in {"socketpair_sv", "socketpair_wm"} =>
        open = last.before.open

====
